---- MODULE Spec2Model ----
(***************************************************************************)
(* Model of the task-manager backend: the authentication gate              *)
(* (middleware/auth.ts), the task routes (routes/tasks.ts, second and      *)
(* current version), the storage rules of the migrations, and the          *)
(* server-sent-events status channel.                                      *)
(*                                                                         *)
(* Spec     : requests passing the gate and the task routes, over the      *)
(*            task table and the process-wide provider client.             *)
(* SpecSSE  : one status-stream connection with its two timers.            *)
(* FairSSE  : SpecSSE with the fairness the event loop gives to timers     *)
(*            and to pending storage reads.                                *)
(* SpecAI   : one invocation of the model service (services/openai-        *)
(*            service.ts) with every reply text up to MaxReplyLen.         *)
(* SpecTree : the statements the task routes send to storage for one       *)
(*            logged-in principal, over a table of MaxTreeTasks rows.      *)
(* SpecRace : overlapping DELETE requests of one principal.                *)
(* SpecAuth : the identity routes (routes/auth.ts) behind and beside the   *)
(*            gate.                                                        *)
(* SpecValid: the routes that validate their request body: register,       *)
(*            login, refresh, POST /api/tasks, PATCH /api/tasks/:id/status.*)
(***************************************************************************)
EXTENDS Integers, Sequences, FiniteSets, TLC

\* ------------------------------------------------------------------ bounds
MaxTasks == 2      \* rows the task table may ever hold (ids are never reused)
MaxTicks == 2      \* poll ticks followed on one status-stream connection
MaxInflight == 2   \* overlapping poll reads followed on one connection
MaxReplyLen == 4   \* characters of a model reply
MaxTreeTasks == 4  \* rows of the table in the hierarchy specification

\* --------------------------------------------------------------- constants
MaxDepth == 3      \* check_task_depth: "depth < 3" / "depth >= 3"

Principals == {"P", "Q"}
NoUser == "none"
Tokens == {"tokP", "tokQ", "bad"}
Headers == {"absent", "basic", "bearer"}
TaskIds == 1..MaxTasks
\* one request slot per principal: requests of different principals overlap,
\* a principal sends its next request after the previous one was answered
Reqs == Principals
NoId == 0

ValidStatuses ==
    {"not_started", "planning", "in_progress", "review", "testing",
     "completed", "on_hold", "cancelled", "deferred", "blocked"}
AiStatuses == {"not_enhanced", "enhanced", "enhancement_failed"}
\* request-body values followed by the model: field absent, a valid value,
\* a value outside the allowed set
StatusInputs == {"absent", "not_started", "bogus"}
StorageOutcomes == {"ok", "error", "throws"}

VARIABLES
    tasks,      \* the task table: id -> row (owner = NoUser: no such row)
    nextId,     \* next id the table hands out
    session,    \* user of the session held by the process-wide client
    reqs,       \* request slots: position of each request in gate/handler
    resp,       \* the response the last step sent (NoResp: it sent none)
    sse,        \* the status-stream connection: handler position and timers
    events,     \* the res.write calls of the connection, in order
    audit,      \* history of the connection (reads issued, how it ended)
    svc,        \* one invocation of OpenAIService.enhanceTask / splitTask
    meta        \* identity provider: who last wrote each user's metadata

vars == <<tasks, nextId, session, reqs, resp, sse, events, audit, svc, meta>>
storeVars == <<tasks, nextId, session>>
sseVars == <<sse, events, audit>>

\* ---------------------------------------------------------------- storage
NoTask == [owner |-> NoUser, parent |-> NoId, status |-> "none", ai |-> "none"]

Exists(T, i) == i \in DOMAIN T /\ T[i].owner # NoUser

\* Permissive row-level policies are OR-ed; auth.uid() is the user of the
\* session the shared client holds (NULL without a session).
RlsUsing(T, i, uid) ==
    /\ uid # NoUser
    /\ \/ T[i].owner = uid
       \/ /\ T[i].parent # NoId
          /\ Exists(T, T[i].parent)
          /\ T[T[i].parent].owner = uid

RlsInsertCheck(T, row, uid) ==
    /\ uid # NoUser
    /\ \/ uid = row.owner
       \/ /\ uid = row.owner
          /\ \/ row.parent = NoId
             \/ Exists(T, row.parent) /\ T[row.parent].owner = uid

Visible(T, uid) == {i \in DOMAIN T : Exists(T, i) /\ RlsUsing(T, i, uid)}

\* .eq("id", id).eq("user_id", user) through the shared client
SelectById(T, uid, id, user) ==
    {i \in Visible(T, uid) : i = id /\ T[i].owner = user}

\* .eq("user_id", user) through the shared client
SelectByUser(T, uid, user) == {i \in Visible(T, uid) : T[i].owner = user}

\* .eq("parent_task_id", id).eq("user_id", user)
SelectChildren(T, uid, id, user) ==
    {i \in Visible(T, uid) : T[i].parent = id /\ T[i].owner = user}

\* the service-role client bypasses row-level security
ServiceSelectByUser(T, user) ==
    {i \in DOMAIN T : Exists(T, i) /\ T[i].owner = user}

\* check_task_depth: walk the parent links the invoking session can see
RECURSIVE DepthWalk(_, _, _, _)
DepthWalk(T, uid, cur, depth) ==
    IF cur # NoId /\ depth < MaxDepth
    THEN DepthWalk(T, uid,
                   IF cur \in Visible(T, uid) THEN T[cur].parent ELSE NoId,
                   depth + 1)
    ELSE depth

DepthOk(T, uid, parent) == DepthWalk(T, uid, parent, 0) < MaxDepth

\* foreign key: the parent row exists (checked without row-level security)
ParentFkOk(T, parent) == parent = NoId \/ Exists(T, parent)

\* the rows that name one of the given rows as parent
ChildrenOf(T, ids) ==
    {i \in DOMAIN T : T[i].owner # NoUser /\ i \notin ids /\ T[i].parent \in ids}

\* DeleteRows with ON DELETE CASCADE: the children go with their parent
DeleteRows_Cascade(T, ids) ==
    [i \in DOMAIN T |->
        IF i \in ids \/ T[i].parent \in ids THEN NoTask ELSE T[i]]

\* ON DELETE SET NULL on parent_task_id
DeleteRows(T, ids) ==
    [i \in DOMAIN T |->
        IF i \in ids THEN NoTask
        ELSE IF T[i].parent \in ids THEN [T[i] EXCEPT !.parent = NoId]
        ELSE T[i]]

Owners(T, ids) == {T[i].owner : i \in ids}

\* ------------------------------------------------------------ request slots
\* A request is followed from its arrival to its response.  Its inputs are
\* drawn where the handler first uses them.
IdleReq ==
    [pc |-> "idle", token |-> "none", user |-> NoUser, route |-> "none",
     id |-> NoId, owners |-> {}]

NoResp ==
    [kind |-> "none", user |-> NoUser, route |-> "none", id |-> NoId,
     mode |-> "none", code |-> 0, owners |-> {}, flag |-> FALSE,
     storage |-> "none", wrote |-> FALSE, status |-> "none", cleared |-> {},
     idp |-> "none", bad |-> {}]

TokenUser(t) == IF t = "tokP" THEN "P" ELSE IF t = "tokQ" THEN "Q" ELSE NoUser

\* tokens the principal of slot r sends: its own, or one the provider rejects
SlotTokens(r) == {t \in Tokens : TokenUser(t) \in {r, NoUser}}

\* the status-stream connection: position of the route handler, the two
\* timers, the close listener, the response stream and the client
IdleSse ==
    [pc |-> "idle", user |-> NoUser, id |-> NoId, interval |-> FALSE,
     timeout |-> FALSE, listener |-> FALSE, ended |-> FALSE,
     client |-> TRUE, inflight |-> 0, ticks |-> 0]

\* what happened on the connection so far
IdleAudit ==
    [reads |-> 0, openAi |-> "none", pollErrors |-> 0,
     sawTerminal |-> FALSE, endedBy |-> "none"]

\* a user that registers while the process runs, besides the principals
Newcomer == "N"
Users == Principals \cup {Newcomer}
\* user_metadata of every user is as the user's registration left it
NoMeta == [p \in Users |-> NoUser]

\* the model service before it is invoked
IdleSvc ==
    [pc |-> "idle", method |-> "none", requestOk |-> FALSE, calls |-> 0,
     outcome |-> "none", reply |-> <<>>, result |-> [kind |-> "none"]]

Init ==
    /\ tasks = [i \in TaskIds |-> NoTask]
    /\ nextId = 1
    /\ session = NoUser
    /\ reqs = [r \in Reqs |-> IdleReq]
    /\ resp = NoResp
    /\ sse = IdleSse
    /\ events = <<>>
    /\ audit = IdleAudit
    /\ svc = IdleSvc
    /\ meta = NoMeta

\* the response of the previous step has left the process; the steps of
\* gate and handlers are followed from such a state
Quiet == resp = NoResp

\* the storage call a step made before it answered: its outcome, whether it
\* was a write, the status value it carried, and the rows whose parent
\* reference storage cleared on its behalf; the identity-provider call it
\* made; the fields of the request body that were missing or not allowed
NoCall ==
    [storage |-> "none", wrote |-> FALSE, status |-> "none", cleared |-> {},
     idp |-> "none", bad |-> {}]
Read(o) == [NoCall EXCEPT !.storage = o]
Write(o, st) == [NoCall EXCEPT !.storage = o, !.wrote = TRUE, !.status = st]
Rejected(st) == [NoCall EXCEPT !.status = st]
Delete(o, ids) == [NoCall EXCEPT !.storage = o, !.wrote = TRUE, !.cleared = ids]
Provider(name) == [NoCall EXCEPT !.idp = name]
Body(call, fields) == [call EXCEPT !.bad = fields]

\* a handler's response: status code and the owners of the rows it carries
Answer(r, route, id, code, owners, call) ==
    /\ reqs' = [reqs EXCEPT ![r] = IdleReq]
    /\ resp' = [NoResp EXCEPT !.kind = "handler", !.user = reqs[r].user,
                              !.route = route, !.id = id, !.code = code,
                              !.owners = owners, !.storage = call.storage,
                              !.wrote = call.wrote, !.status = call.status,
                              !.cleared = call.cleared, !.idp = call.idp,
                              !.bad = call.bad]

\* a response made without a storage call
Respond(r, route, id, code, owners) ==
    Answer(r, route, id, code, owners, NoCall)

\* the handler awaits a further storage call
Await(r, pc, route, id, owners) ==
    /\ reqs' = [reqs EXCEPT ![r] =
                [IdleReq EXCEPT !.pc = pc, !.user = reqs[r].user,
                                !.route = route, !.id = id, !.owners = owners]]
    /\ resp' = NoResp

\* -------------------------------------------------------- authentication gate
\* the gate answers the request itself: {error, message} with this code
GateReject(r, code) ==
    /\ reqs' = [reqs EXCEPT ![r] = IdleReq]
    /\ resp' = [NoResp EXCEPT !.kind = "gate", !.code = code]

\* the gate attaches the user and calls next()
GateNext(r, user) ==
    /\ reqs' = [reqs EXCEPT ![r] = [IdleReq EXCEPT !.pc = "next", !.user = user]]
    /\ resp' = NoResp

\* authenticateUser up to its await: the header check
GateHeader(r, h, t) ==
    IF h # "bearer"
    THEN GateReject(r, 401)
    ELSE /\ reqs' = [reqs EXCEPT ![r] = [IdleReq EXCEPT !.pc = "auth", !.token = t]]
         /\ resp' = NoResp

Arrive(r) ==
    /\ Quiet
    /\ reqs[r].pc = "idle"
    /\ \E h \in Headers :
        \E t \in (IF h = "bearer" THEN SlotTokens(r) ELSE {"none"}) :
            GateHeader(r, h, t)
    /\ UNCHANGED <<storeVars, sseVars, svc, meta>>

\* GateResolve without the return after the 401: next() is reached as well
GateResolve_NoReturn(r, outcome) ==
    CASE outcome = "user" -> GateNext(r, TokenUser(reqs[r].token))
      [] outcome = "error" -> GateNext(r, NoUser)
      [] OTHER -> GateReject(r, 500)

\* authenticateUser after supabase.auth.getUser(token) settles
GateResolve(r, outcome) ==
    CASE outcome = "user" -> GateNext(r, TokenUser(reqs[r].token))
      [] outcome = "error" -> GateReject(r, 401)
      [] OTHER -> GateReject(r, 500)

\* the provider resolves a token it issued, reports an error, or the call fails
AuthResolve(r) ==
    /\ Quiet
    /\ reqs[r].pc = "auth"
    /\ \E outcome \in {"user", "error", "throws"} :
        /\ outcome = "user" => TokenUser(reqs[r].token) # NoUser
        /\ GateResolve(r, outcome)
    /\ UNCHANGED <<storeVars, sseVars, svc, meta>>

\* --------------------------------------------- the shared client's session
\* POST /api/auth/login: signInWithPassword on the shared client
Login(p) ==
    /\ Quiet
    /\ session # p
    /\ session' = p
    /\ resp' = NoResp
    /\ UNCHANGED <<tasks, nextId, reqs, sseVars, svc, meta>>

\* POST /api/auth/logout (behind the gate): signOut on the shared client
Logout(r) ==
    /\ Quiet
    /\ reqs[r].pc = "next"
    /\ session' = NoUser
    /\ Respond(r, "logout", NoId, 200, {})
    /\ UNCHANGED <<tasks, nextId, sseVars, svc, meta>>

\* ------------------------------------------------------------- task routes
\* GET /api/tasks, first query (through the shared client)
ListTasks(r) ==
    /\ Quiet
    /\ reqs[r].pc = "next"
    /\ \E o \in StorageOutcomes :
        LET u == reqs[r].user
            rows == SelectByUser(tasks, session, u)
        IN  CASE o = "throws" -> Answer(r, "list", NoId, 500, {}, Read(o))
              [] o = "error" -> Answer(r, "list", NoId, 200, {}, Read(o))
              [] OTHER ->
                    IF rows = {}
                    THEN Await(r, "list2", "list", NoId, {})
                    ELSE Answer(r, "list", NoId, 200, Owners(tasks, rows), Read(o))
    /\ UNCHANGED <<storeVars, sseVars, svc, meta>>

\* GET /api/tasks, second query (service-role client, existence only)
ListTasksService(r) ==
    /\ Quiet
    /\ reqs[r].pc = "list2"
    /\ \E o \in StorageOutcomes :
        LET u == reqs[r].user
            raw == ServiceSelectByUser(tasks, u)
        IN  IF o = "throws"
            THEN Answer(r, "list", NoId, 500, {}, Read(o))
            ELSE /\ reqs' = [reqs EXCEPT ![r] = IdleReq]
                 /\ resp' = [NoResp EXCEPT !.kind = "handler", !.user = u,
                                           !.route = "list", !.code = 200,
                                           !.flag = (o = "ok" /\ raw # {}),
                                           !.storage = o]
    /\ UNCHANGED <<storeVars, sseVars, svc, meta>>

\* GET /api/tasks/:id
GetTask(r) ==
    /\ Quiet
    /\ reqs[r].pc = "next"
    /\ \E id \in TaskIds, o \in StorageOutcomes :
        LET rows == SelectById(tasks, session, id, reqs[r].user)
        IN  CASE o = "throws" -> Answer(r, "get", id, 500, {}, Read(o))
              [] o = "error" -> Answer(r, "get", id, 400, {}, Read(o))
              [] OTHER ->
                    IF rows = {}
                    THEN Answer(r, "get", id, 404, {}, Read(o))
                    ELSE Answer(r, "get", id, 200, Owners(tasks, rows), Read(o))
    /\ UNCHANGED <<storeVars, sseVars, svc, meta>>

\* the row the insert of POST /api/tasks sends
InsertRow(u, parent, st) ==
    [owner |-> u, parent |-> parent,
     status |-> IF st = "absent" THEN "not_started" ELSE st,
     ai |-> "not_enhanced"]

\* constraints, trigger and policy the table applies to an insert
InsertAccepted(T, uid, row) ==
    /\ row.status \in ValidStatuses
    /\ ParentFkOk(T, row.parent)
    /\ DepthOk(T, uid, row.parent)
    /\ RlsInsertCheck(T, row, uid)

\* request bodies followed for POST /api/tasks: well-formed ones with every
\* parent and status input, and one for each way validation fails
CreateBodies ==
    {[title |-> TRUE, priority |-> TRUE, status |-> st, parent |-> p] :
        st \in StatusInputs \ {"bogus"}, p \in {NoId} \cup TaskIds}
    \cup {[title |-> FALSE, priority |-> TRUE, status |-> "absent", parent |-> NoId],
          [title |-> TRUE, priority |-> TRUE, status |-> "bogus", parent |-> NoId],
          [title |-> TRUE, priority |-> FALSE, status |-> "absent", parent |-> NoId]}

\* the fields of a POST /api/tasks body that are missing or not allowed
CreateBad(body) ==
    (IF body.title THEN {} ELSE {"title"})
    \cup (IF body.status = "bogus" THEN {"status"} ELSE {})
    \cup (IF body.priority THEN {} ELSE {"priority"})

\* the checks POST /api/tasks makes on the body before it calls storage
CreateBodyValid(body) ==
    /\ body.title
    /\ body.status = "absent" \/ body.status \in ValidStatuses
    /\ body.priority

\* POST /api/tasks
CreateTask(r) ==
    /\ Quiet
    /\ reqs[r].pc = "next"
    /\ \E body \in CreateBodies :
        LET u == reqs[r].user
            row == InsertRow(u, body.parent, body.status)
        IN  IF ~CreateBodyValid(body)
            THEN /\ Answer(r, "create", NoId, 400, {},
                        Body(Rejected(body.status), CreateBad(body)))
                 /\ UNCHANGED <<tasks, nextId>>
            ELSE \E o \in StorageOutcomes :
                 CASE o = "throws" ->
                        /\ Answer(r, "create", NoId, 500, {},
                                  Body(Write(o, body.status), CreateBad(body)))
                        /\ UNCHANGED <<tasks, nextId>>
                   [] o = "error" \/ ~InsertAccepted(tasks, session, row) ->
                        /\ Answer(r, "create", NoId, 400, {},
                                  Body(Write(o, body.status), CreateBad(body)))
                        /\ UNCHANGED <<tasks, nextId>>
                   [] OTHER ->
                        /\ nextId <= MaxTasks
                        /\ tasks' = [tasks EXCEPT ![nextId] = row]
                        /\ nextId' = nextId + 1
                        /\ Answer(r, "create", nextId, 201, {u},
                                  Body(Write(o, body.status), CreateBad(body)))
    /\ UNCHANGED <<session, sseVars, svc, meta>>

\* the existence check PUT and DELETE make before their write
ExistenceCheck(r, route) ==
    \E id \in TaskIds, o \in StorageOutcomes :
        LET rows == SelectById(tasks, session, id, reqs[r].user)
        IN  CASE o = "throws" -> Answer(r, route, id, 500, {}, Read(o))
              [] o = "error" \/ rows = {} -> Answer(r, route, id, 404, {}, Read(o))
              [] OTHER -> Await(r, "check", route, id, {})

\* PUT /api/tasks/:id up to its update call
UpdateCheck(r) ==
    /\ Quiet
    /\ reqs[r].pc = "next"
    /\ ExistenceCheck(r, "update")
    /\ UNCHANGED <<storeVars, sseVars, svc, meta>>

\* UpdatedRow when the update sends the whole body, for a body whose user_id
\* names the other principal
UpdatedRow_WholeBody(row, parent, st) ==
    [row EXCEPT !.status = IF st = "absent" THEN @ ELSE st,
                !.parent = IF parent = NoId THEN @ ELSE parent,
                !.owner = CHOOSE p \in Principals : p # @]

\* the row an update leaves: absent fields are not sent
UpdatedRow(row, parent, st) ==
    [row EXCEPT !.status = IF st = "absent" THEN @ ELSE st,
                !.parent = IF parent = NoId THEN @ ELSE parent]

\* constraints, trigger and policy the table applies to an update of row i
UpdateAccepted(T, uid, i, new) ==
    /\ new.status \in ValidStatuses
    /\ new.parent # i
    /\ ParentFkOk(T, new.parent)
    /\ DepthOk(T, uid, new.parent)
    /\ RlsUsing([T EXCEPT ![i] = new], i, uid)

\* PUT /api/tasks/:id, the update call
UpdateWrite(r) ==
    /\ Quiet
    /\ reqs[r].pc = "check"
    /\ reqs[r].route = "update"
    /\ \E parent \in {NoId} \cup TaskIds, st \in StatusInputs,
          o \in StorageOutcomes :
        LET u == reqs[r].user
            id == reqs[r].id
            rows == SelectById(tasks, session, id, u)
            new == UpdatedRow(tasks[id], parent, st)
        IN  CASE o = "throws" ->
                    /\ Answer(r, "update", id, 500, {}, Write(o, st))
                    /\ UNCHANGED tasks
              [] o = "error" \/ rows = {}
                   \/ ~UpdateAccepted(tasks, session, id, new) ->
                    /\ Answer(r, "update", id, 400, {}, Write(o, st))
                    /\ UNCHANGED tasks
              [] OTHER ->
                    /\ tasks' = [tasks EXCEPT ![id] = new]
                    /\ Answer(r, "update", id, 200, {u}, Write(o, st))
    /\ UNCHANGED <<nextId, session, sseVars, svc, meta>>

\* DELETE /api/tasks/:id up to its delete call
DeleteCheck(r) ==
    /\ Quiet
    /\ reqs[r].pc = "next"
    /\ ExistenceCheck(r, "delete")
    /\ UNCHANGED <<storeVars, sseVars, svc, meta>>

\* DELETE /api/tasks/:id, the delete call
DeleteWrite(r) ==
    /\ Quiet
    /\ reqs[r].pc = "check"
    /\ reqs[r].route = "delete"
    /\ \E o \in StorageOutcomes :
        LET id == reqs[r].id
            rows == SelectById(tasks, session, id, reqs[r].user)
        IN  CASE o = "throws" ->
                    /\ Answer(r, "delete", id, 500, {}, Delete(o, {}))
                    /\ UNCHANGED tasks
              [] o = "error" ->
                    /\ Answer(r, "delete", id, 400, {}, Delete(o, {}))
                    /\ UNCHANGED tasks
              [] OTHER ->
                    /\ tasks' = DeleteRows(tasks, rows)
                    /\ Answer(r, "delete", id, 200, {},
                              Delete(o, ChildrenOf(tasks, rows)))
    /\ UNCHANGED <<nextId, session, sseVars, svc, meta>>

\* the field of a PATCH /api/tasks/:id/status body that is missing or not
\* allowed
PatchBad(st) == IF st \in {"absent", "bogus"} THEN {"status"} ELSE {}

\* PATCH /api/tasks/:id/status
PatchStatus(r) ==
    /\ Quiet
    /\ reqs[r].pc = "next"
    /\ \E id \in TaskIds, st \in StatusInputs :
        LET u == reqs[r].user
            rows == SelectById(tasks, session, id, u)
            new == UpdatedRow(tasks[id], NoId, st)
        IN  IF st = "absent" \/ st \notin ValidStatuses
            THEN /\ Answer(r, "patch", id, 400, {},
                        Body(Rejected(st), PatchBad(st)))
                 /\ UNCHANGED tasks
            ELSE \E o \in StorageOutcomes :
                 CASE o = "throws" ->
                        /\ Answer(r, "patch", id, 500, {},
                                  Body(Write(o, st), PatchBad(st)))
                        /\ UNCHANGED tasks
                   [] o = "error" \/ rows = {}
                        \/ ~UpdateAccepted(tasks, session, id, new) ->
                        /\ Answer(r, "patch", id, 400, {},
                                  Body(Write(o, st), PatchBad(st)))
                        /\ UNCHANGED tasks
                   [] OTHER ->
                        /\ tasks' = [tasks EXCEPT ![id] = new]
                        /\ Answer(r, "patch", id, 200, {u},
                                  Body(Write(o, st), PatchBad(st)))
    /\ UNCHANGED <<nextId, session, sseVars, svc, meta>>

\* GET /api/tasks/:id/children
GetChildren(r) ==
    /\ Quiet
    /\ reqs[r].pc = "next"
    /\ \E id \in TaskIds, o \in StorageOutcomes :
        LET rows == SelectChildren(tasks, session, id, reqs[r].user)
        IN  CASE o = "throws" -> Answer(r, "children", id, 500, {}, Read(o))
              [] o = "error" -> Answer(r, "children", id, 400, {}, Read(o))
              [] OTHER -> Answer(r, "children", id, 200, Owners(tasks, rows), Read(o))
    /\ UNCHANGED <<storeVars, sseVars, svc, meta>>

\* GET /api/tasks/:id/with-children, the parent query
WithChildrenParent(r) ==
    /\ Quiet
    /\ reqs[r].pc = "next"
    /\ \E id \in TaskIds, o \in StorageOutcomes :
        LET rows == SelectById(tasks, session, id, reqs[r].user)
        IN  CASE o = "throws" -> Answer(r, "withChildren", id, 500, {}, Read(o))
              [] o = "error" -> Answer(r, "withChildren", id, 400, {}, Read(o))
              [] OTHER ->
                    IF rows = {}
                    THEN Answer(r, "withChildren", id, 404, {}, Read(o))
                    ELSE Await(r, "wc2", "withChildren", id, Owners(tasks, rows))
    /\ UNCHANGED <<storeVars, sseVars, svc, meta>>

\* GET /api/tasks/:id/with-children, the children query
WithChildrenKids(r) ==
    /\ Quiet
    /\ reqs[r].pc = "wc2"
    /\ \E o \in StorageOutcomes :
        LET id == reqs[r].id
            rows == SelectChildren(tasks, session, id, reqs[r].user)
        IN  CASE o = "throws" -> Answer(r, "withChildren", id, 500, {}, Read(o))
              [] o = "error" -> Answer(r, "withChildren", id, 400, {}, Read(o))
              [] OTHER -> Answer(r, "withChildren", id, 200,
                                  reqs[r].owners \cup Owners(tasks, rows), Read(o))
    /\ UNCHANGED <<storeVars, sseVars, svc, meta>>

EnhancementTypes == {"enhance", "split", "other"}

\* POST /api/tasks/:id/enhance-ai
EnhanceAi(r) ==
    /\ Quiet
    /\ reqs[r].pc = "next"
    /\ \E id \in TaskIds, mode \in EnhancementTypes :
        /\ reqs' = [reqs EXCEPT ![r] = IdleReq]
        /\ resp' = [NoResp EXCEPT !.kind = "handler", !.user = reqs[r].user,
                                  !.route = "enhance", !.id = id,
                                  !.mode = mode, !.code = 200]
    /\ UNCHANGED <<storeVars, sseVars, svc, meta>>

\* the response written by the last step is on its way to the client
Sent ==
    /\ ~Quiet
    /\ resp' = NoResp
    /\ UNCHANGED <<storeVars, reqs, sseVars, svc, meta>>

Handler(r) ==
    \/ ListTasks(r) \/ ListTasksService(r) \/ GetTask(r) \/ CreateTask(r)
    \/ UpdateCheck(r) \/ UpdateWrite(r) \/ DeleteCheck(r) \/ DeleteWrite(r)
    \/ PatchStatus(r) \/ GetChildren(r) \/ WithChildrenParent(r)
    \/ WithChildrenKids(r) \/ EnhanceAi(r) \/ Logout(r)

Next ==
    \/ \E r \in Reqs : Arrive(r) \/ AuthResolve(r) \/ Handler(r)
    \/ \E p \in Principals : Login(p)
    \/ Sent

Spec == Init /\ [][Next]_vars

\* ------------------------------------------------- status stream (SSE route)
\* late: the write was made after res.end() and reaches no client
Event(name) == [name |-> name, late |-> FALSE]
StatusEvent(status, progress) ==
    [name |-> "status", late |-> FALSE, status |-> status, progress |-> progress]

TerminalNames == {"complete", "error", "timeout"}

\* the switch of the poll callback: progress reported for a status value
Progress(status) ==
    CASE status = "not_enhanced" -> 0
      [] status = "enhanced" -> 100
      [] status = "enhancement_failed" -> 0
      [] OTHER -> 50

\* res.write(e): the event goes out unless res.end() was called before
Written(evs, ended, e) == Append(evs, [e EXCEPT !.late = ended])
\* res.end(): the first call closes the stream
EndedBy(a, ended, how) == IF ended THEN a.endedBy ELSE how

\* handler entry: headers and the connected event, then the task lookup starts
SseOpen(u, id) ==
    /\ sse.pc = "idle"
    /\ sse' = [sse EXCEPT !.pc = "lookup", !.user = u, !.id = id]
    /\ events' = <<Event("connected")>>
    /\ UNCHANGED <<storeVars, reqs, resp, audit, svc, meta>>

\* the handler after the lookup settled: error paths, or the first status
\* event, both timers and the close listener
LookupSettled(o) ==
    LET rows == SelectById(tasks, session, sse.id, sse.user)
        ai == tasks[sse.id].ai
    IN  IF o # "ok" \/ rows = {}
        THEN /\ sse' = [sse EXCEPT !.pc = "failed", !.ended = TRUE]
             /\ events' = Written(events, sse.ended, Event("error"))
             /\ audit' = [audit EXCEPT !.endedBy = "lookup"]
        ELSE /\ sse' = [sse EXCEPT !.pc = "open", !.timeout = TRUE,
                                   !.interval = TRUE, !.listener = TRUE]
             /\ events' = Written(events, sse.ended, StatusEvent(ai, 0))
             /\ audit' = [audit EXCEPT !.openAi = ai]

SseLookupDone ==
    /\ sse.pc = "lookup"
    /\ \E o \in StorageOutcomes : LookupSettled(o)
    /\ UNCHANGED <<storeVars, reqs, resp, svc, meta>>

\* setInterval callback up to its await: one more status read is issued
SseTick ==
    /\ sse.interval
    /\ sse.ticks < MaxTicks
    /\ sse.inflight < MaxInflight
    /\ sse' = [sse EXCEPT !.inflight = @ + 1, !.ticks = @ + 1]
    /\ audit' = [audit EXCEPT !.reads = @ + 1]
    /\ UNCHANGED <<storeVars, reqs, resp, events, svc, meta>>

\* PollFailed without clearInterval(interval)
PollFailed_KeepsInterval ==
    /\ sse' = [sse EXCEPT !.inflight = @ - 1, !.timeout = FALSE, !.ended = TRUE]
    /\ events' = Written(events, sse.ended, Event("error"))
    /\ audit' = [audit EXCEPT !.pollErrors = @ + 1,
                              !.endedBy = EndedBy(audit, sse.ended, "error")]

\* poll callback, updateError branch and catch branch
PollFailed ==
    /\ sse' = [sse EXCEPT !.inflight = @ - 1, !.interval = FALSE,
                          !.timeout = FALSE, !.ended = TRUE]
    /\ events' = Written(events, sse.ended, Event("error"))
    /\ audit' = [audit EXCEPT !.pollErrors = @ + 1,
                              !.endedBy = EndedBy(audit, sse.ended, "error")]

\* poll callback, a status was read
PollRead(status) ==
    LET ev == StatusEvent(status, Progress(status))
        final == IF status = "enhanced" THEN Event("complete") ELSE Event("error")
    IN  IF status \in {"enhanced", "enhancement_failed"}
        THEN /\ sse' = [sse EXCEPT !.inflight = @ - 1, !.interval = FALSE,
                                   !.timeout = FALSE, !.ended = TRUE]
             /\ events' = Written(Written(events, sse.ended, ev), sse.ended, final)
             /\ audit' = [audit EXCEPT
                            !.sawTerminal = TRUE,
                            !.endedBy = EndedBy(audit, sse.ended,
                                IF status = "enhanced" THEN "complete" ELSE "error")]
        ELSE /\ sse' = [sse EXCEPT !.inflight = @ - 1]
             /\ events' = Written(events, sse.ended, ev)
             /\ UNCHANGED audit

\* a status read issued by the poll callback settles
SsePollDone ==
    /\ sse.inflight > 0
    /\ \E o \in StorageOutcomes :
        LET rows == SelectById(tasks, session, sse.id, sse.user)
        IN  IF o # "ok" \/ rows = {}
            THEN PollFailed
            ELSE PollRead(tasks[sse.id].ai)
    /\ UNCHANGED <<storeVars, reqs, resp, svc, meta>>

\* TimeoutFired without res.end()
TimeoutFired_NoEnd ==
    /\ sse' = [sse EXCEPT !.timeout = FALSE]
    /\ events' = Written(events, sse.ended, Event("timeout"))
    /\ UNCHANGED audit

\* setTimeout callback: the timeout event and res.end()
TimeoutFired ==
    /\ sse' = [sse EXCEPT !.timeout = FALSE, !.ended = TRUE]
    /\ events' = Written(events, sse.ended, Event("timeout"))
    /\ audit' = [audit EXCEPT !.endedBy = EndedBy(audit, sse.ended, "timeout")]

SseTimeout ==
    /\ sse.timeout
    /\ TimeoutFired
    /\ UNCHANGED <<storeVars, reqs, resp, svc, meta>>

\* req "close" listener
CloseListener ==
    /\ sse' = [sse EXCEPT !.client = FALSE, !.interval = FALSE,
                          !.timeout = FALSE, !.ended = TRUE]
    /\ audit' = [audit EXCEPT !.endedBy = EndedBy(audit, sse.ended, "close")]

\* the client's connection goes away; req emits "close" once, to the
\* listeners registered at that moment
SseClientClose ==
    /\ sse.pc # "idle"
    /\ sse.client
    /\ IF sse.listener
       THEN CloseListener
       ELSE /\ sse' = [sse EXCEPT !.client = FALSE]
            /\ UNCHANGED audit
    /\ UNCHANGED <<storeVars, reqs, resp, events, svc, meta>>

\* another writer of the table sets the enhancement status of a row
StorageStatusChange ==
    /\ \E i \in TaskIds, a \in AiStatuses :
        /\ Exists(tasks, i)
        /\ tasks[i].ai # a
        /\ tasks' = [tasks EXCEPT ![i].ai = a]
    /\ UNCHANGED <<nextId, session, reqs, resp, sseVars, svc, meta>>

\* a table with one task of each principal, the first in any enhancement status
InitSSE ==
    /\ \E a \in AiStatuses :
        tasks = [i \in TaskIds |->
                    IF i = 1
                    THEN [owner |-> "P", parent |-> NoId,
                          status |-> "not_started", ai |-> a]
                    ELSE IF i = 2
                    THEN [owner |-> "Q", parent |-> NoId,
                          status |-> "not_started", ai |-> "not_enhanced"]
                    ELSE NoTask]
    /\ nextId = MaxTasks + 1
    /\ session \in Principals \cup {NoUser}
    /\ reqs = [r \in Reqs |-> IdleReq]
    /\ resp = NoResp
    /\ sse = IdleSse
    /\ events = <<>>
    /\ audit = IdleAudit
    /\ svc = IdleSvc
    /\ meta = NoMeta

NextSSE ==
    \/ \E u \in Principals, id \in TaskIds : SseOpen(u, id)
    \/ SseLookupDone
    \/ SseTick
    \/ SsePollDone
    \/ SseTimeout
    \/ SseClientClose
    \/ StorageStatusChange

SpecSSE == InitSSE /\ [][NextSSE]_vars

\* timers fire and pending storage calls settle
FairSSE ==
    /\ SpecSSE
    /\ WF_vars(SseLookupDone)
    /\ WF_vars(SsePollDone)
    /\ WF_vars(SseTimeout)

\* --------------------------------------------------------- model service
\* A reply is a text over a few characters: braces, a JSON member whose
\* value has the type the response schema asks for ("s"), a JSON member
\* whose value is a truthy value of another type ("b"), a character of
\* prose ("x") and a newline ("n").
Chars == {"{", "}", "s", "b", "x", "n"}
Members == {"s", "b"}
RECURSIVE Texts(_)
Texts(n) ==
    IF n = 0 THEN {<<>>}
    ELSE Texts(n - 1) \cup {Append(t, c) : t \in Texts(n - 1), c \in Chars}
Replies == Texts(MaxReplyLen)

Methods == {"enhance", "split"}
\* requests handed to the service: title a string or not, any type
Requests ==
    [title : {"string", "missing"}, enhancement_type : EnhancementTypes]
\* OpenAIEnhancementRequestSchema.parse(request) does not throw
RequestValid(req) ==
    req.title = "string" /\ req.enhancement_type \in {"enhance", "split"}

Positions(t, c) == {k \in DOMAIN t : t[k] = c}
Least(S) == CHOOSE k \in S : \A j \in S : k <= j
Greatest(S) == CHOOSE k \in S : \A j \in S : k >= j

\* content.match(/\{[\s\S]*\}/): from the first "{" to the last "}" after it
\* (<<>>: no match)
JsonMatch(t) ==
    LET opens == Positions(t, "{")
        closes == {k \in Positions(t, "}") : opens # {} /\ k > Least(opens)}
    IN  IF opens = {} \/ closes = {} THEN <<>>
        ELSE SubSeq(t, Least(opens), Greatest(closes))

\* JSON.parse(text) yields an object
IsJsonObject(t) ==
    /\ Len(t) >= 2
    /\ t[1] = "{"
    /\ t[Len(t)] = "}"
    /\ \A k \in 2..(Len(t) - 1) : t[k] \in Members

\* the value JSON.parse gives the member the parsers read: the last one wins
MemberOf(t) ==
    LET ms == {k \in DOMAIN t : t[k] \in Members}
    IN  IF ms = {} THEN "absent" ELSE t[Greatest(ms)]

Str(text) == [type |-> "string", text |-> text]
NotStr == [type |-> "number", text |-> <<>>]
Arr(items) == [type |-> "array", items |-> items]
Priorities == {"low", "medium", "high"}

\* content.split("\n")[0]
FirstLine(t) ==
    LET nl == Positions(t, "n")
    IN  IF nl = {} THEN t ELSE SubSeq(t, 1, Least(nl) - 1)

\* parseEnhancementResponse, the catch branch
EnhanceFallback(t) ==
    [kind |-> "fallback",
     enhanced_title |->
        Str(<<"[Enhanced] ">> \o (IF FirstLine(t) = <<>> THEN <<"Task">>
                                  ELSE FirstLine(t))),
     enhanced_description |-> Str(t),
     enhancement_notes |->
        Str(<<"Task enhanced using AI (parsing failed, using raw response)">>)]

\* parseEnhancementResponse, the object built from the parsed JSON
EnhanceParsed(obj) ==
    [kind |-> "parsed",
     enhanced_title |->
        CASE MemberOf(obj) = "s" -> Str(<<"s">>)
          [] MemberOf(obj) = "b" -> NotStr
          [] OTHER -> Str(<<>>),
     enhanced_description |-> Str(<<>>),
     enhancement_notes |-> Str(<<"Task enhanced for clarity and actionability">>)]

parseEnhancementResponse(t) ==
    IF JsonMatch(t) # <<>> /\ IsJsonObject(JsonMatch(t))
    THEN EnhanceParsed(JsonMatch(t))
    ELSE EnhanceFallback(t)

Subtask(title, description, effort, priority, tags) ==
    [title |-> title, description |-> description, estimated_effort |-> effort,
     priority |-> priority, tags |-> tags]

\* parseSplitResponse, the catch branch
SplitFallback ==
    [kind |-> "fallback",
     subtasks |-> Arr(<<
        Subtask("Research and Planning", "Initial research and planning phase",
                "2-3 hours", "medium", <<"planning">>),
        Subtask("Implementation", "Main implementation work",
                "4-8 hours", "high", <<"execution">>),
        Subtask("Review and Testing", "Final review and testing",
                "1-2 hours", "medium", <<"review">>)>>),
     split_reasoning |->
        Str(<<"Task split into basic phases due to parsing error">>)]

\* parseSplitResponse, the object built from the parsed JSON: a member "s"
\* is a subtasks array of one complete subtask, a member "b" a subtasks
\* array whose subtask has no description and an unknown priority
SplitParsed(obj) ==
    [kind |-> "parsed",
     subtasks |->
        CASE MemberOf(obj) = "s" ->
                Arr(<<Subtask("s", "text", "1 day", "low", <<>>)>>)
          [] MemberOf(obj) = "b" ->
                Arr(<<Subtask("b", "undefined", "1 day", "urgent", <<>>)>>)
          [] OTHER -> Arr(<<>>),
     split_reasoning |-> Str(<<"Task broken down into logical subtasks">>)]

parseSplitResponse(t) ==
    IF JsonMatch(t) # <<>> /\ IsJsonObject(JsonMatch(t))
    THEN SplitParsed(JsonMatch(t))
    ELSE SplitFallback

\* OpenAIEnhancementResponseSchema.parse(result) does not throw
OpenAIEnhancementResponseSchema(res) ==
    /\ res.enhanced_title.type = "string"
    /\ res.enhanced_description.type = "string"
    /\ res.enhancement_notes.type = "string"

\* OpenAISplitResponseSchema.parse(result) does not throw
OpenAISplitResponseSchema(res) ==
    /\ res.subtasks.type = "array"
    /\ \A k \in DOMAIN res.subtasks.items :
        /\ res.subtasks.items[k].description # "undefined"
        /\ res.subtasks.items[k].priority \in Priorities
    /\ res.split_reasoning.type = "string"

\* SvcFailed with one retry: the chat-completion call is issued again
SvcFailed_Retry(call, outcome, t) ==
    IF call.calls = 1
    THEN svc' = [call EXCEPT !.calls = @ + 1]
    ELSE svc' = [call EXCEPT !.pc = "raised", !.outcome = outcome, !.reply = t]

\* the catch block of enhanceTask / splitTask: the error is wrapped and thrown
SvcFailed(call, outcome, t) ==
    svc' = [call EXCEPT !.pc = "raised", !.outcome = outcome, !.reply = t]

\* enhanceTask / splitTask up to the await: the request is validated, then
\* the one chat-completion call is issued
SvcInvoke ==
    /\ svc.pc = "idle"
    /\ \E method \in Methods, req \in Requests :
        IF RequestValid(req)
        THEN svc' = [svc EXCEPT !.pc = "awaiting", !.method = method,
                                !.requestOk = TRUE, !.calls = @ + 1]
        ELSE SvcFailed([svc EXCEPT !.method = method], "none", <<>>)
    /\ UNCHANGED <<storeVars, reqs, resp, sseVars, meta>>

\* enhanceTask / splitTask after the reply text was read: parse, validate
SvcParse(t) ==
    LET res == IF svc.method = "enhance" THEN parseEnhancementResponse(t)
               ELSE parseSplitResponse(t)
        ok == IF svc.method = "enhance" THEN OpenAIEnhancementResponseSchema(res)
              ELSE OpenAISplitResponseSchema(res)
    IN  IF ok
        THEN svc' = [svc EXCEPT !.pc = "returned", !.outcome = "content",
                                !.reply = t, !.result = res]
        ELSE SvcFailed(svc, "content", t)

\* the chat-completion call settles: it rejects, it has no content, or it
\* has a reply text
SvcSettle ==
    /\ svc.pc = "awaiting"
    /\ \/ \E outcome \in {"rejects", "null"} : SvcFailed(svc, outcome, <<>>)
       \/ \E t \in Replies :
            IF t = <<>> THEN SvcFailed(svc, "content", t) ELSE SvcParse(t)
    /\ UNCHANGED <<storeVars, reqs, resp, sseVars, meta>>

NextAI == SvcInvoke \/ SvcSettle

SpecAI == Init /\ [][NextAI]_vars

\* ------------------------------------------------------ task hierarchy
\* The statements POST /api/tasks, PUT /api/tasks/:id and DELETE
\* /api/tasks/:id send to storage, for the principal whose session the shared
\* client holds, on a table large enough for chains of four tasks.
TreeIds == 1..MaxTreeTasks

\* the insert of POST /api/tasks: storage accepts it or answers an error
StoreInsert(parent) ==
    LET row == InsertRow(session, parent, "absent")
    IN  /\ Quiet
        /\ nextId <= MaxTreeTasks
        /\ InsertAccepted(tasks, session, row)
        /\ tasks' = [tasks EXCEPT ![nextId] = row]
        /\ nextId' = nextId + 1
        /\ UNCHANGED <<session, reqs, resp, sseVars, svc, meta>>

\* the update of PUT /api/tasks/:id with a parent_task_id in the body
StoreUpdate(id, parent) ==
    LET new == UpdatedRow(tasks[id], parent, "absent")
    IN  /\ Quiet
        /\ SelectById(tasks, session, id, session) # {}
        /\ new # tasks[id]
        /\ UpdateAccepted(tasks, session, id, new)
        /\ tasks' = [tasks EXCEPT ![id] = new]
        /\ UNCHANGED <<nextId, session, reqs, resp, sseVars, svc, meta>>

\* the delete of DELETE /api/tasks/:id
StoreDelete(id) ==
    LET rows == SelectById(tasks, session, id, session)
    IN  /\ Quiet
        /\ rows # {}
        /\ tasks' = DeleteRows(tasks, rows)
        /\ UNCHANGED <<nextId, session, reqs, resp, sseVars, svc, meta>>

\* P has logged in; the table is empty
InitTree ==
    /\ tasks = [i \in TreeIds |-> NoTask]
    /\ nextId = 1
    /\ session = "P"
    /\ reqs = [r \in Reqs |-> IdleReq]
    /\ resp = NoResp
    /\ sse = IdleSse
    /\ events = <<>>
    /\ audit = IdleAudit
    /\ svc = IdleSvc
    /\ meta = NoMeta

NextTree ==
    \/ \E parent \in {NoId} \cup TreeIds : StoreInsert(parent)
    \/ \E id \in TreeIds, parent \in TreeIds : StoreUpdate(id, parent)
    \/ \E id \in TreeIds : StoreDelete(id)

SpecTree == InitTree /\ [][NextTree]_vars

\* ------------------------------------------- overlapping requests of one user
\* Both request slots carry requests of P, so that two requests of the same
\* principal overlap: each awaits the provider, then its existence check,
\* then its delete call.
RaceArrive(r) ==
    /\ Quiet
    /\ reqs[r].pc = "idle"
    /\ GateHeader(r, "bearer", "tokP")
    /\ UNCHANGED <<storeVars, sseVars, svc, meta>>

\* P has logged in and owns a task and a child task of it
InitRace ==
    /\ tasks = [i \in TaskIds |->
                    IF i = 1
                    THEN [owner |-> "P", parent |-> NoId,
                          status |-> "not_started", ai |-> "not_enhanced"]
                    ELSE IF i = 2
                    THEN [owner |-> "P", parent |-> 1,
                          status |-> "not_started", ai |-> "not_enhanced"]
                    ELSE NoTask]
    /\ nextId = MaxTasks + 1
    /\ session = "P"
    /\ reqs = [r \in Reqs |-> IdleReq]
    /\ resp = NoResp
    /\ sse = IdleSse
    /\ events = <<>>
    /\ audit = IdleAudit
    /\ svc = IdleSvc
    /\ meta = NoMeta

NextRace ==
    \/ \E r \in Reqs :
            RaceArrive(r) \/ AuthResolve(r) \/ DeleteCheck(r) \/ DeleteWrite(r)
    \/ Sent

SpecRace == InitRace /\ [][NextRace]_vars

\* ------------------------------------------------------- identity routes
\* the response of a route that is not behind the gate
PublicAnswer(route, code, call) ==
    /\ resp' = [NoResp EXCEPT !.kind = "handler", !.route = route,
                              !.code = code, !.idp = call.idp, !.bad = call.bad]
    /\ UNCHANGED reqs

\* bodies of register and login: each field present or not
Credentials == [email : BOOLEAN, password : BOOLEAN]
CredentialsBad(body) ==
    (IF body.email THEN {} ELSE {"email"})
    \cup (IF body.password THEN {} ELSE {"password"})

\* CredentialsMissing with the password test left out
CredentialsMissing_EmailOnly(body) == ~body.email

\* if (!email || !password)
CredentialsMissing(body) == ~body.email \/ ~body.password

\* POST /api/auth/register: signUp on the shared client.  The provider
\* answers with a session (the client now holds it), with a user still to
\* be confirmed, or with an error; or the call fails.
AuthRegister ==
    /\ Quiet
    /\ \E body \in Credentials,
          o \in {"session", "confirm", "error", "throws"} :
        LET call == Body(Provider("signUp"), CredentialsBad(body))
        IN  IF CredentialsMissing(body)
            THEN /\ PublicAnswer("register", 400,
                                 Body(NoCall, CredentialsBad(body)))
                 /\ UNCHANGED session
            ELSE CASE o = "throws" ->
                        /\ PublicAnswer("register", 500, call)
                        /\ UNCHANGED session
                   [] o = "error" ->
                        /\ PublicAnswer("register", 400, call)
                        /\ UNCHANGED session
                   [] o = "confirm" ->
                        /\ PublicAnswer("register", 201, call)
                        /\ UNCHANGED session
                   [] OTHER ->
                        /\ PublicAnswer("register", 201, call)
                        /\ session' = Newcomer
    /\ UNCHANGED <<tasks, nextId, sseVars, svc, meta>>

\* POST /api/auth/login: signInWithPassword on the shared client
AuthLogin ==
    /\ Quiet
    /\ \E body \in Credentials, p \in Principals,
          o \in {"ok", "error", "throws"} :
        LET call == Body(Provider("signIn"), CredentialsBad(body))
        IN  IF CredentialsMissing(body)
            THEN /\ PublicAnswer("login", 400,
                                 Body(NoCall, CredentialsBad(body)))
                 /\ UNCHANGED session
            ELSE CASE o = "throws" ->
                        /\ PublicAnswer("login", 500, call)
                        /\ UNCHANGED session
                   [] o = "error" ->
                        /\ PublicAnswer("login", 401, call)
                        /\ UNCHANGED session
                   [] OTHER ->
                        /\ PublicAnswer("login", 200, call)
                        /\ session' = p
    /\ UNCHANGED <<tasks, nextId, sseVars, svc, meta>>

\* POST /api/auth/refresh: refreshSession on the shared client, with the
\* refresh token of a principal
AuthRefresh ==
    /\ Quiet
    /\ \E present \in BOOLEAN, p \in Principals,
          o \in {"ok", "error", "throws"} :
        LET bad == IF present THEN {} ELSE {"refresh_token"}
            call == Body(Provider("refresh"), bad)
        IN  IF ~present
            THEN /\ PublicAnswer("refresh", 400, Body(NoCall, bad))
                 /\ UNCHANGED session
            ELSE CASE o = "throws" ->
                        /\ PublicAnswer("refresh", 500, call)
                        /\ UNCHANGED session
                   [] o = "error" ->
                        /\ PublicAnswer("refresh", 401, call)
                        /\ UNCHANGED session
                   [] OTHER ->
                        /\ PublicAnswer("refresh", 200, call)
                        /\ session' = p
    /\ UNCHANGED <<tasks, nextId, sseVars, svc, meta>>

\* PUT /api/auth/profile (behind the gate): updateUser on the shared client
\* writes the metadata of the user whose session the client holds
UpdateProfile(r) ==
    /\ Quiet
    /\ reqs[r].pc = "next"
    /\ \E o \in {"ok", "error", "throws"} :
        CASE o = "throws" ->
                /\ Answer(r, "profile", NoId, 500, {}, Provider("updateUser"))
                /\ UNCHANGED meta
          [] o = "error" \/ session = NoUser ->
                /\ Answer(r, "profile", NoId, 400, {}, Provider("updateUser"))
                /\ UNCHANGED meta
          [] OTHER ->
                /\ meta' = [meta EXCEPT ![session] = reqs[r].user]
                /\ Answer(r, "profile", NoId, 200, {session},
                          Provider("updateUser"))
    /\ UNCHANGED <<storeVars, sseVars, svc>>

\* the identity routes
NextAuth ==
    \/ \E r \in Reqs :
            Arrive(r) \/ AuthResolve(r) \/ UpdateProfile(r) \/ Logout(r)
    \/ AuthRegister \/ AuthLogin \/ AuthRefresh
    \/ Sent

SpecAuth == Init /\ [][NextAuth]_vars

\* the routes that check their request body before they call out
NextValid ==
    \/ \E r \in Reqs :
            \/ Arrive(r) \/ AuthResolve(r)
            \/ CreateTask(r) \/ PatchStatus(r) \/ Logout(r)
    \/ AuthRegister \/ AuthLogin \/ AuthRefresh
    \/ Sent

SpecValid == Init /\ [][NextValid]_vars

\* ================================================================== claims
HandlerPcs == {"next", "check", "list2", "wc2"}
Owned(i, u) == Exists(tasks, i) /\ tasks[i].owner = u

\* every row a response carries belongs to the principal it is sent to
ReadIsolated == resp.owners \subseteq {resp.user}

\* a step changes or removes a row only on a request of the row's owner
WriteIsolated ==
    \A i \in TaskIds :
        (Exists(tasks, i) /\ tasks'[i] # tasks[i]) =>
            \E r \in Reqs : /\ reqs[r].pc \in HandlerPcs
                            /\ reqs'[r] # reqs[r]
                            /\ reqs[r].user = tasks[i].owner

\* C1: ownership isolation.  No response sent to a principal carries a task
\* of another principal, and no request of a principal changes or deletes a
\* task of another principal.
C1_OwnershipIsolation == []ReadIsolated /\ [][WriteIsolated]_vars

\* what the gate may do in one step, rejecting after the provider call with
\* one of the given codes
GateSteps(codes) ==
    /\ \A r \in Reqs :
        (reqs[r].pc = "auth" /\ reqs'[r] # reqs[r]) =>
            \/ /\ reqs'[r].pc = "next"
               /\ reqs'[r].user = TokenUser(reqs[r].token)
               /\ reqs'[r].user \in Principals
               /\ resp' = NoResp
            \/ /\ reqs'[r].pc = "idle"
               /\ resp'.kind = "gate"
               /\ resp'.code \in codes
    /\ \A r \in Reqs :
        (reqs'[r].pc = "next" /\ reqs[r].pc # "next") => reqs[r].pc = "auth"
    /\ resp'.kind = "gate" =>
            \/ reqs' = reqs /\ resp'.code = 401
            \/ \E r \in Reqs : reqs[r].pc = "auth" /\ reqs'[r].pc = "idle"
    /\ resp'.kind = "handler" =>
            \E r \in Reqs : /\ reqs[r].pc \in HandlerPcs
                            /\ reqs[r].user = resp'.user
                            /\ resp'.user \in Principals

\* C2 as stated: the handler runs only behind a bearer token the provider
\* resolves to a user; every other request is answered 401 by the gate, and
\* the gate either calls next() or answers, never both.
C2_GateAlways401 == [][GateSteps({401})]_vars

\* C2 as amended: the same, except that the gate answers 500 (not 401) when
\* the provider call itself fails.
C2_GateRejects == [][GateSteps({401, 500})]_vars

\* the gate answered 500 to one request while another one passed it
C2_Witness ==
    /\ resp.kind = "gate"
    /\ resp.code = 500
    /\ \E r \in Reqs : reqs[r].pc = "next" /\ reqs[r].user \in Principals

\* C9: once POST /tasks/{id}/enhance-ai with mode enhance on a task of the
\* caller has been answered, the task's ai_enhancement_status is enhanced or
\* enhancement_failed.
C9_EnhanceLeavesTerminalStatus ==
    (/\ resp.kind = "handler"
     /\ resp.route = "enhance"
     /\ resp.mode = "enhance"
     /\ Owned(resp.id, resp.user))
        => tasks[resp.id].ai \in {"enhanced", "enhancement_failed"}

\* C10: POST /tasks/{id}/enhance-ai on a task that does not exist or is not
\* the caller's is answered 404.
C10_EnhanceForeignTask404 ==
    (/\ resp.kind = "handler"
     /\ resp.route = "enhance"
     /\ ~Owned(resp.id, resp.user))
        => resp.code = 404

\* ---------------------------------------------------- status stream claims
Terminals(evs) == {k \in DOMAIN evs : evs[k].name \in TerminalNames}
StatusEvents(evs) == {k \in DOMAIN evs : evs[k].name = "status"}
FirstStatus(evs) == evs[CHOOSE k \in StatusEvents(evs) :
                            \A j \in StatusEvents(evs) : k <= j]

\* C3: a connection whose stream has been closed carries exactly one terminal
\* event (complete, error or timeout), whatever closed it.
C3_ExactlyOneTerminal == sse.ended => Cardinality(Terminals(events)) = 1

\* C4: once the stream has been closed no further event is written on the
\* connection and no further status read is issued for it.
C4_ClosedIsAbsorbing ==
    [][sse.ended => (events' = events /\ audit'.reads = audit.reads)]_vars

\* C5: after the client disconnected neither timer is armed, and the stream
\* is closed as soon as the handler is past its initial lookup.
C5_DisconnectReleasesTimers ==
    (sse.pc # "idle" /\ ~sse.client) =>
        /\ ~sse.interval
        /\ ~sse.timeout
        /\ sse.pc # "lookup" => sse.ended

\* the stream was closed by the connection timeout alone
TimedOutQuietly ==
    /\ sse.pc = "open"
    /\ sse.ended
    /\ sse.client
    /\ audit.pollErrors = 0
    /\ ~audit.sawTerminal

\* C6: every opened connection is eventually closed; when no poll read
\* failed or returned a terminal status and the client stayed, it was closed
\* by the timeout, whose event went out before the close.
C6_EventuallyClosed ==
    /\ (sse.pc # "idle") ~> sse.ended
    /\ [](TimedOutQuietly =>
            /\ audit.endedBy = "timeout"
            /\ \E k \in DOMAIN events :
                    events[k].name = "timeout" /\ ~events[k].late)

C6_Witness == TimedOutQuietly /\ audit.endedBy = "timeout" /\ sse.ticks > 0

\* C7: on a task whose stored status is enhanced when the stream is opened,
\* the first status event carries status enhanced with progress 100.
C7_FirstStatusIsComplete ==
    (audit.openAi = "enhanced" /\ StatusEvents(events) # {}) =>
        /\ FirstStatus(events).status = "enhanced"
        /\ FirstStatus(events).progress = 100

\* C8: a failed poll read writes one error event (it goes out when the
\* stream was still open), clears the poll interval and the connection
\* timeout and closes the stream; no poll read is issued after it.
C8_PollErrorEnds ==
    [][/\ audit'.pollErrors > audit.pollErrors =>
            /\ Len(events') = Len(events) + 1
            /\ events'[Len(events')].name = "error"
            /\ events'[Len(events')].late = sse.ended
            /\ ~sse'.interval
            /\ ~sse'.timeout
            /\ sse'.ended
       /\ audit.pollErrors > 0 => audit'.reads = audit.reads]_vars

\* a poll read failed while the stream was open and another read was pending
C8_Witness ==
    /\ audit.pollErrors > 0
    /\ audit.endedBy = "error"
    /\ sse.inflight > 0

\* ---------------------------------------------------- model service claims
SvcDone == svc.pc \in {"returned", "raised"}
\* the call came back with a reply text
SvcReplied == SvcDone /\ svc.outcome = "content"

\* some span of the text is a JSON object
HasJsonObject(t) ==
    \E i \in DOMAIN t, j \in DOMAIN t : i < j /\ IsJsonObject(SubSeq(t, i, j))

\* "{" minus "}" in t[i..k]
BraceDepth(t, i, k) ==
    Cardinality({m \in i..k : t[m] = "{"}) - Cardinality({m \in i..k : t[m] = "}"})

\* the first balanced curly-brace span of the text (<<>>: there is none)
FirstBalancedSpan(t) ==
    LET opens == Positions(t, "{")
        ends == {k \in DOMAIN t : opens # {} /\ k > Least(opens)
                                  /\ BraceDepth(t, Least(opens), k) = 0}
    IN  IF opens = {} \/ ends = {} THEN <<>>
        ELSE SubSeq(t, Least(opens), Least(ends))

\* C11: once POST /tasks/{id}/enhance-ai with mode split on a task of the
\* caller has been answered, the task has status in_progress and
\* ai_enhancement_status enhanced (and the subtasks of the parser are its
\* children).
C11_SplitLeavesParentEnhanced ==
    (/\ resp.kind = "handler"
     /\ resp.route = "enhance"
     /\ resp.mode = "split"
     /\ Owned(resp.id, resp.user))
        => /\ tasks[resp.id].status = "in_progress"
           /\ tasks[resp.id].ai = "enhanced"

\* C12: for every reply text, the empty one included, that holds no JSON
\* object, enhanceTask returns the fallback result and does not raise.
C12_EnhanceFallbackNeverRaises ==
    (SvcReplied /\ svc.method = "enhance" /\ ~HasJsonObject(svc.reply))
        => /\ svc.pc = "returned"
           /\ svc.result = EnhanceFallback(svc.reply)

\* C13: for every reply text that holds no JSON object, parseSplitResponse
\* gives the three fixed subtasks, which pass the schema, and splitTask
\* returns them and does not raise.
C13_SplitFallbackFixed ==
    (SvcReplied /\ svc.method = "split" /\ ~HasJsonObject(svc.reply))
        => /\ parseSplitResponse(svc.reply) = SplitFallback
           /\ OpenAISplitResponseSchema(SplitFallback)
           /\ svc.pc = "returned"
           /\ svc.result = SplitFallback

\* C14: when the model call rejects or comes back without content, enhanceTask
\* and splitTask return the fallback result and do not raise.
C14_ApiFailureRecovered ==
    (SvcDone /\ svc.requestOk
        /\ (svc.outcome \in {"rejects", "null"} \/ svc.reply = <<>>))
        => /\ svc.pc = "returned"
           /\ svc.result.kind = "fallback"

\* C15: for every reply text that holds a JSON object, whatever its members
\* and their types, enhanceTask and splitTask return a result.
C15_JsonObjectNeverRaises ==
    (SvcReplied /\ HasJsonObject(svc.reply)) => svc.pc = "returned"

\* C16: when the first balanced curly-brace span of the reply is a JSON
\* object, the parsers build their result from that object, whatever follows
\* the span.
C16_FirstBalancedSpanParsed ==
    (SvcReplied /\ IsJsonObject(FirstBalancedSpan(svc.reply)))
        => IF svc.method = "enhance"
           THEN parseEnhancementResponse(svc.reply)
                    = EnhanceParsed(FirstBalancedSpan(svc.reply))
           ELSE parseSplitResponse(svc.reply)
                    = SplitParsed(FirstBalancedSpan(svc.reply))

\* C17: an invocation of enhanceTask or splitTask issues at most one call to
\* the model: one when the request passes validation, none otherwise, and no
\* further one after a failure or an unparsable reply.
C17_OneModelCall ==
    /\ svc.calls <= 1
    /\ svc.pc # "idle" => svc.calls = (IF svc.requestOk THEN 1 ELSE 0)

\* the one call failed, or its reply went to the fallback, and none followed
C17_Witness ==
    /\ SvcDone
    /\ svc.calls = 1
    /\ \/ svc.outcome = "rejects"
       \/ svc.result.kind = "fallback"

\* ------------------------------------------------------- task write claims
\* C18: POST /tasks, PUT /tasks/{id} and PATCH /tasks/{id}/status answer a
\* status outside the allowed set with 400 from the application, before any
\* write call is issued to storage, and leave every row as it was.
C18_InvalidStatusRejectedBeforeWrite ==
    [][(/\ resp'.kind = "handler"
        /\ resp'.route \in {"create", "update", "patch"}
        /\ resp'.status = "bogus")
          => /\ resp'.code = 400
             /\ ~resp'.wrote
             /\ tasks' = tasks]_vars

\* C19: GET, PUT, DELETE /tasks/{id}, PATCH /tasks/{id}/status and
\* GET /tasks/{id}/with-children answer 404 when the body is valid, storage
\* works and the task is absent or belongs to another user.
C19_AbsentTaskIs404 ==
    [][(/\ resp'.kind = "handler"
        /\ resp'.route \in {"get", "update", "delete", "patch", "withChildren"}
        /\ resp'.storage = "ok"
        /\ resp'.status \notin {"absent", "bogus"}
        /\ ~Owned(resp'.id, resp'.user))
          => resp'.code = 404]_vars

\* the n-th task up the parent links from task i (NoId: the chain has ended)
NthParent(T, i, n) ==
    LET up[k \in 0..n] ==
            IF k = 0 THEN i
            ELSE IF up[k - 1] = NoId \/ ~Exists(T, up[k - 1]) THEN NoId
            ELSE T[up[k - 1]].parent
    IN  up[n]

\* C20: in every reachable state the parent relation is acyclic: no task is
\* reached from itself by following parent links, over one link or several.
C20_ParentAcyclic ==
    \A i \in TaskIds :
        Exists(tasks, i) => \A n \in 1..MaxTasks : NthParent(tasks, i, n) # i

\* C22: in every reachable state, every task with a parent has a parent owned
\* by the principal that owns the task: storage accepts no create or update
\* that names a task of another principal as parent.
C22_ParentSameOwner ==
    \A i \in TaskIds :
        (Exists(tasks, i) /\ tasks[i].parent # NoId)
            => tasks[tasks[i].parent].owner = tasks[i].owner

\* C25: a task route whose storage call came back with an error answers with
\* an error status (4xx or 5xx), never with a 2xx status.
C25_StorageErrorIsErrorStatus ==
    (resp.kind = "handler" /\ resp.storage = "error") => resp.code >= 400

\* C27: every status event written on a status-stream connection, the one
\* sent on open included, carries the progress the fixed mapping gives to its
\* status value (enhanced 100, not_enhanced and enhancement_failed 0, any
\* other value 50).
C27_ProgressIsFunctionOfStatus ==
    \A k \in DOMAIN events :
        events[k].name = "status"
            => events[k].progress = Progress(events[k].status)

\* C29: the outcome of a task request of a principal does not depend on what
\* other principals did to the session of the shared client: in particular
\* GET /api/tasks/:id of a principal for a task it owns, with storage
\* working, answers 200 with that task.
C29_OwnTaskAlwaysReturned ==
    (/\ resp.kind = "handler"
     /\ resp.route = "get"
     /\ resp.storage = "ok"
     /\ Owned(resp.id, resp.user))
        => (resp.code = 200 /\ resp.owners = {resp.user})

\* C23: every parent reference names a task that exists, after every
\* sequence of create, update and delete requests; a delete clears the
\* parent reference of each child of the deleted task and deletes no child.
C23_ReferencesIntact ==
    /\ [](\A i \in TaskIds :
            (Exists(tasks, i) /\ tasks[i].parent # NoId)
                => Exists(tasks, tasks[i].parent))
    /\ [][\A i \in TaskIds, j \in TaskIds :
            (/\ Exists(tasks, i)
             /\ i # j
             /\ tasks[i].parent = j
             /\ Exists(tasks, j)
             /\ ~Exists(tasks', j))
                => (Exists(tasks', i) /\ tasks'[i].parent = NoId)]_vars

\* a delete was answered after storage cleared the reference of a child
C23_Witness ==
    /\ resp.kind = "handler"
    /\ resp.route = "delete"
    /\ resp.code = 200
    /\ ~Exists(tasks, resp.id)
    /\ resp.cleared # {}
    /\ \A i \in resp.cleared : Exists(tasks, i) /\ tasks[i].parent = NoId

\* C24: no request changes the owner of an existing task, and a new task is
\* owned by the principal whose create request made it.
C24_OwnerImmutable ==
    [][\A i \in TaskIds :
        /\ (Exists(tasks, i) /\ Exists(tasks', i))
                => tasks'[i].owner = tasks[i].owner
        /\ (~Exists(tasks, i) /\ Exists(tasks', i))
                => (resp'.route = "create" /\ tasks'[i].owner = resp'.user)]_vars

\* an update or a status change of a task was applied for its owner
C24_Witness ==
    /\ resp.kind = "handler"
    /\ resp.route \in {"update", "patch"}
    /\ resp.code = 200
    /\ resp.wrote
    /\ tasks[resp.id].owner = resp.user

\* the chain of parent links from task i comes to an end
ChainEnds(T, i) == NthParent(T, i, Cardinality(DOMAIN T)) = NoId

\* C21: nesting depth is bounded in every reachable state: no task has more
\* than two ancestors, whatever creations and parent reassignments storage
\* accepted.  Stated for chains that end; chains that loop are the matter of
\* C20.
C21_DepthBounded ==
    \A i \in DOMAIN tasks :
        (Exists(tasks, i) /\ ChainEnds(tasks, i))
            => NthParent(tasks, i, MaxDepth) = NoId

\* C30: of two overlapping DELETE requests of the owner for the same task,
\* one is answered "Task deleted successfully" and the other 404: a success
\* response is sent only by the request whose delete call removed the row.
C30_DeleteSuccessRemovedRow ==
    [][(/\ resp'.kind = "handler"
        /\ resp'.route = "delete"
        /\ resp'.code = 200)
          => (Exists(tasks, resp'.id) /\ ~Exists(tasks', resp'.id))]_vars

C28_ProfileOfTokenPrincipal ==
    [][\A p \in Users :
        meta'[p] # meta[p]
            => (/\ resp'.kind = "handler"
                /\ resp'.route = "profile"
                /\ resp'.user = p)]_vars

====
